---- MODULE Spec2Model ----
(***************************************************************************)
(* Model of scripts/query-bigquery-emulator.py: the query console that     *)
(* connects to the BigQuery emulator, lists the tables of the dataset,     *)
(* runs three fixed diagnostic queries and then reads SQL from the         *)
(* operator in a loop.                                                     *)
(*                                                                         *)
(* The emulator and the client library are the environment.  Each call     *)
(* into them has an outcome chosen by the environment: it returns, it      *)
(* raises an Exception ("error"), or a KeyboardInterrupt is delivered      *)
(* while it is blocked ("interrupt").  A text line is a sequence of        *)
(* one-character strings.                                                  *)
(***************************************************************************)
EXTENDS Integers, Sequences, FiniteSets, TLC

VARIABLES
    pc,            \* position of main(): start, connected, diagnostics,
                   \* awaiting, executing, done
    exitCode,      \* "none" while running, then "0", "1" or "SIGINT"
    connErr,       \* the "Failed to connect" message was printed
    listCalls,     \* number of client.list_tables requests
    getTableCalls, \* number of client.get_table requests
    listErr,       \* list_tables printed its error marker
    diagDispatch,  \* per fixed query: number of client.query dispatches
    diagErr,       \* per fixed query: its error marker was printed
    prompts,       \* number of "SQL> " prompts shown
    event,         \* what the latest prompt received: line, eof, interrupt
    raw,           \* the latest line as typed
    lineDispatch,  \* client.query dispatches made for the latest line
    result,        \* the emulator's answer to the query of the latest line:
                   \* its number of rows and where the call raised, if it did
    listing,       \* the emulator's answer to the table listing, likewise
    out,           \* what run_custom_query printed and consumed for the
                   \* latest line
    failStreak,    \* custom queries that failed in a row
    exiting        \* the "Exiting..." message was printed

vars == <<pc, exitCode, connErr, listCalls, getTableCalls, listErr,
          diagDispatch, diagErr, prompts, event, raw, lineDispatch,
          result, listing, out, failStreak, exiting>>

----------------------------------------------------------------------------
(* Bounds of the model *)

MaxLen == 2
MaxTables == 2
MaxRows == 11
MaxPrompts == 2

(* Program constants *)

RowLimitIndex == 9

QuitTokens == { <<"q","u","i","t">>, <<"e","x","i","t">>, <<"q">> }

----------------------------------------------------------------------------
(* Text: str.strip() and str.lower() *)

Whitespace == {" ", "\t"}

LowerChar(c) ==
    CASE c = "Q" -> "q"
      [] c = "U" -> "u"
      [] c = "I" -> "i"
      [] c = "T" -> "t"
      [] c = "E" -> "e"
      [] c = "X" -> "x"
      [] c = "S" -> "s"
      [] OTHER -> c

Lower(s) == [i \in 1..Len(s) |-> LowerChar(s[i])]

RECURSIVE LStrip(_)
LStrip(s) ==
    IF s = <<>> THEN <<>>
    ELSE IF Head(s) \in Whitespace THEN LStrip(Tail(s)) ELSE s

RECURSIVE RStrip(_)
RStrip(s) ==
    IF s = <<>> THEN <<>>
    ELSE IF s[Len(s)] \in Whitespace THEN RStrip(SubSeq(s, 1, Len(s) - 1))
    ELSE s

Strip_missing(s) == s

Strip(s) == RStrip(LStrip(s))

IsQuitCommand_case_sensitive(query) == query \in QuitTokens

IsQuitCommand(query) == Lower(query) \in QuitTokens

IsEmptyQuery(query) == query = <<>>

(* The lines the operator may type *)

Alphabet == {"q", " "}

ShortLines == UNION { [1..k -> Alphabet] : k \in 0..MaxLen }

ExtraLines ==
    { <<"q","u","i","t">>, <<"Q","U","I","T">>, <<" ","Q","u","i","T","\t">>,
      <<"e","x","i","t">>, <<"E","x","i","t"," ">>, <<" ","Q"," ">>,
      <<"\t">>, <<" "," ">>,
      <<"q","u","i","t","s">>, <<"e","x","i","t"," ","q">>,
      <<" ","S","e","l"," ">> }

Lines == ShortLines \cup ExtraLines

----------------------------------------------------------------------------
(* Outcomes of the calls into the client library *)

NoFault == [kind |-> "none", op |-> "none", at |-> 0]

\* A custom query raises at dispatch (at = 0) or while row `at` is fetched.
QueryFaults(n) ==
    {NoFault} \cup [kind : {"error", "interrupt"}, op : {"query"}, at : 0..(n + 1)]

\* The listing raises while table `at` is fetched from the enumeration
\* (op = "list") or while its details are looked up (op = "get").
ListFaults(n) ==
    {NoFault}
    \cup [kind : {"error", "interrupt"}, op : {"list"}, at : 1..(n + 1)]
    \cup [kind : {"error", "interrupt"}, op : {"get"}, at : 1..n]

DiagOutcomes == [1..3 -> {"ok", "error", "interrupt"}]

----------------------------------------------------------------------------
(* create_client *)

create_client(outcome) ==
    IF outcome = "ok" THEN [raised |-> "none"] ELSE [raised |-> outcome]

(* list_tables: `except Exception` catches an error, not an interrupt *)

RECURSIVE ListLoop(_, _, _, _)
ListLoop(i, n, fault, gets) ==
    IF fault.op = "list" /\ fault.at = i
    THEN [raised |-> fault.kind, names |-> i - 1, gets |-> gets]
    ELSE IF i > n
    THEN [raised |-> "none", names |-> n, gets |-> gets]
    ELSE IF fault.op = "get" /\ fault.at = i
    THEN [raised |-> fault.kind, names |-> i, gets |-> gets + 1]
    ELSE ListLoop(i + 1, n, fault, gets + 1)

ListResult(r) ==
    IF r.raised = "error"
    THEN [ok |-> FALSE, err |-> TRUE, raised |-> "none",
          names |-> r.names, gets |-> r.gets, lists |-> 1]
    ELSE [ok |-> r.raised = "none", err |-> FALSE, raised |-> r.raised,
          names |-> r.names, gets |-> r.gets, lists |-> 1]

list_tables_empty_is_error(n, fault) ==
    IF n = 0
    THEN [ok |-> FALSE, err |-> TRUE, raised |-> "none",
          names |-> 0, gets |-> 0, lists |-> 1]
    ELSE ListResult(ListLoop(1, n, fault, 0))

list_tables(n, fault) == ListResult(ListLoop(1, n, fault, 0))

(* query_firebase_model: the first query's handler returns, the second's  *)
(* and the third's fall through                                           *)

AfterDiagError_never_return(q) == "continue"

AfterDiagError(q) == IF q = 1 THEN "return" ELSE "continue"

RECURSIVE DiagFrom(_, _, _, _)
DiagFrom(q, o, dispatched, errs) ==
    IF q > 3
    THEN [dispatched |-> dispatched, errs |-> errs, raised |-> "none"]
    ELSE LET d == [dispatched EXCEPT ![q] = @ + 1] IN
         CASE o[q] = "interrupt" ->
                [dispatched |-> d, errs |-> errs, raised |-> "interrupt"]
           [] o[q] = "error" ->
                IF AfterDiagError(q) = "return"
                THEN [dispatched |-> d, errs |-> [errs EXCEPT ![q] = TRUE],
                      raised |-> "none"]
                ELSE DiagFrom(q + 1, o, d, [errs EXCEPT ![q] = TRUE])
           [] OTHER -> DiagFrom(q + 1, o, d, errs)

query_firebase_model(o) ==
    DiagFrom(1, o, [q \in 1..3 |-> 0], [q \in 1..3 |-> FALSE])

(* run_custom_query *)

ShouldBreak_off_by_one(i) == i > RowLimitIndex

ShouldBreak(i) == i >= RowLimitIndex

RECURSIVE RowLoop(_, _, _, _)
RowLoop(i, n, fault, printed) ==
    IF fault.kind # "none" /\ fault.at = i + 1
    THEN [raised |-> fault.kind, printed |-> printed, consumed |-> i]
    ELSE IF i + 1 > n
    THEN [raised |-> "none", printed |-> printed, consumed |-> i]
    ELSE LET h == IF i = 0 THEN Append(printed, <<"header">>) ELSE printed
             p == Append(h, <<"row", i + 1>>)
         IN  IF ShouldBreak(i)
             THEN [raised |-> "none", printed |-> p, consumed |-> i + 1]
             ELSE RowLoop(i + 1, n, fault, p)

CustomCatches_nothing(kind) == FALSE

CustomCatches_everything(kind) == TRUE

CustomCatches(kind) == kind = "error"

QueryAndPrint(n, fault) ==
    LET r == IF fault.kind # "none" /\ fault.at = 0
             THEN [raised |-> fault.kind, printed |-> <<>>, consumed |-> 0]
             ELSE RowLoop(0, n, fault, <<>>)
    IN  IF r.raised # "none" /\ CustomCatches(r.raised)
        THEN [raised |-> "none", err |-> TRUE, dispatches |-> 1,
              printed |-> Append(r.printed, <<"error">>),
              consumed |-> r.consumed]
        ELSE [raised |-> r.raised, err |-> FALSE, dispatches |-> 1,
              printed |-> r.printed, consumed |-> r.consumed]

run_custom_query_retry(n, fault) ==
    LET r == QueryAndPrint(n, fault)
    IN  IF r.err THEN [r EXCEPT !.dispatches = 2] ELSE r

run_custom_query(n, fault) == QueryAndPrint(n, fault)

NoResult == [n |-> 0, fault |-> NoFault]

NoOutput ==
    [raised |-> "none", err |-> FALSE, dispatches |-> 0,
     printed |-> <<>>, consumed |-> 0]

----------------------------------------------------------------------------
(* main *)

Init ==
    /\ pc = "start"
    /\ exitCode = "none"
    /\ connErr = FALSE
    /\ listCalls = 0
    /\ getTableCalls = 0
    /\ listErr = FALSE
    /\ diagDispatch = [q \in 1..3 |-> 0]
    /\ diagErr = [q \in 1..3 |-> FALSE]
    /\ prompts = 0
    /\ event = "none"
    /\ raw = <<>>
    /\ lineDispatch = 0
    /\ result = NoResult
    /\ listing = NoResult
    /\ out = NoOutput
    /\ failStreak = 0
    /\ exiting = FALSE

\* An exception that no handler of main catches ends the process: an
\* Exception with exit status 1, a KeyboardInterrupt by the signal.
Uncaught(kind) ==
    /\ pc' = "done"
    /\ exitCode' = IF kind = "interrupt" THEN "SIGINT" ELSE "1"

\* try: client = create_client() / except Exception: ... sys.exit(1)
MainConnect(outcome) ==
    /\ pc = "start"
    /\ LET r == create_client(outcome) IN
       CASE r.raised = "none" ->
              /\ pc' = "connected"
              /\ UNCHANGED <<exitCode, connErr>>
         [] r.raised = "error" ->
              /\ pc' = "done"
              /\ exitCode' = "1"
              /\ connErr' = TRUE
         [] OTHER ->
              /\ Uncaught(r.raised)
              /\ UNCHANGED connErr
    /\ UNCHANGED <<listCalls, getTableCalls, listErr, diagDispatch, diagErr,
                   prompts, event, raw, lineDispatch, result, listing, out,
                   failStreak, exiting>>

AfterListTables_nonfatal(ok) == "diagnostics"

AfterListTables(ok) == IF ok THEN "diagnostics" ELSE "exit"

\* if not list_tables(client): sys.exit(1)
MainListTables(n, fault) ==
    /\ pc = "connected"
    /\ LET r == list_tables(n, fault) IN
       /\ listCalls' = listCalls + r.lists
       /\ getTableCalls' = getTableCalls + r.gets
       /\ listErr' = r.err
       /\ listing' = [n |-> n, fault |-> fault]
       /\ IF r.raised # "none"
          THEN Uncaught(r.raised)
          ELSE IF AfterListTables(r.ok) = "exit"
          THEN pc' = "done" /\ exitCode' = "1"
          ELSE pc' = "diagnostics" /\ UNCHANGED exitCode
    /\ UNCHANGED <<connErr, diagDispatch, diagErr, prompts, event, raw,
                   lineDispatch, result, out, failStreak, exiting>>

\* query_firebase_model(client)
MainDiagnostics(o) ==
    /\ pc = "diagnostics"
    /\ LET r == query_firebase_model(o) IN
       /\ diagDispatch' = r.dispatched
       /\ diagErr' = r.errs
       /\ IF r.raised # "none"
          THEN Uncaught(r.raised)
          ELSE pc' = "awaiting" /\ UNCHANGED exitCode
    /\ UNCHANGED <<connErr, listCalls, getTableCalls, listErr, prompts,
                   event, raw, lineDispatch, result, listing, out,
                   failStreak, exiting>>

\* query = input("\nSQL> ").strip(), then the quit test and the empty test
MainInput(l) ==
    /\ pc = "awaiting"
    /\ prompts < MaxPrompts
    /\ prompts' = prompts + 1
    /\ event' = "line"
    /\ raw' = l
    /\ lineDispatch' = 0
    /\ result' = NoResult
    /\ out' = NoOutput
    /\ LET query == Strip(l) IN
       IF IsQuitCommand(query)
       THEN pc' = "done" /\ exitCode' = "0"
       ELSE IF IsEmptyQuery(query)
       THEN pc' = "awaiting" /\ UNCHANGED exitCode
       ELSE pc' = "executing" /\ UNCHANGED exitCode
    /\ UNCHANGED <<connErr, listCalls, getTableCalls, listErr, listing,
                   diagDispatch, diagErr, failStreak, exiting>>

\* input() raises EOFError: except EOFError: break
MainEOF ==
    /\ pc = "awaiting"
    /\ prompts < MaxPrompts
    /\ prompts' = prompts + 1
    /\ event' = "eof"
    /\ lineDispatch' = 0
    /\ result' = NoResult
    /\ out' = NoOutput
    /\ pc' = "done"
    /\ exitCode' = "0"
    /\ UNCHANGED <<connErr, listCalls, getTableCalls, listErr, listing,
                   diagDispatch, diagErr, raw, failStreak, exiting>>

\* input() raises KeyboardInterrupt: except KeyboardInterrupt: print, break
MainInterrupt ==
    /\ pc = "awaiting"
    /\ prompts < MaxPrompts
    /\ prompts' = prompts + 1
    /\ event' = "interrupt"
    /\ lineDispatch' = 0
    /\ result' = NoResult
    /\ out' = NoOutput
    /\ exiting' = TRUE
    /\ pc' = "done"
    /\ exitCode' = "0"
    /\ UNCHANGED <<connErr, listCalls, getTableCalls, listErr, listing,
                   diagDispatch, diagErr, raw, failStreak>>

\* run_custom_query(client, query) inside the try of the loop
MainRunCustomQuery(n, fault) ==
    /\ pc = "executing"
    /\ LET r == run_custom_query(n, fault) IN
       /\ out' = r
       /\ result' = [n |-> n, fault |-> fault]
       /\ lineDispatch' = lineDispatch + r.dispatches
       /\ CASE r.raised = "interrupt" ->
                 /\ event' = "interrupt"
                 /\ exiting' = TRUE
                 /\ pc' = "done"
                 /\ exitCode' = "0"
                 /\ UNCHANGED failStreak
            [] r.raised = "error" ->
                 /\ Uncaught(r.raised)
                 /\ UNCHANGED <<event, exiting, failStreak>>
            [] OTHER ->
                 /\ pc' = "awaiting"
                 /\ failStreak' = IF r.err THEN failStreak + 1 ELSE 0
                 /\ UNCHANGED <<event, exiting, exitCode>>
    /\ UNCHANGED <<connErr, listCalls, getTableCalls, listErr, listing,
                   diagDispatch, diagErr, prompts, raw>>

Next ==
    \/ \E outcome \in {"ok", "error", "interrupt"} : MainConnect(outcome)
    \/ \E n \in 0..MaxTables : \E fault \in ListFaults(n) :
          MainListTables(n, fault)
    \/ \E o \in DiagOutcomes : MainDiagnostics(o)
    \/ \E l \in Lines : MainInput(l)
    \/ MainEOF
    \/ MainInterrupt
    \/ \E n \in 0..MaxRows : \E fault \in QueryFaults(n) :
          MainRunCustomQuery(n, fault)

Spec == Init /\ [][Next]_vars

TypeOK ==
    /\ pc \in {"start", "connected", "diagnostics", "awaiting", "executing",
               "done"}
    /\ exitCode \in {"none", "0", "1", "SIGINT"}
    /\ event \in {"none", "line", "eof", "interrupt"}
    /\ raw \in Lines
    /\ prompts \in 0..MaxPrompts

----------------------------------------------------------------------------
(* Vocabulary of the properties, stated without Strip and Lower *)

UpperChar(c) ==
    CASE c = "q" -> "Q"
      [] c = "u" -> "U"
      [] c = "i" -> "I"
      [] c = "t" -> "T"
      [] c = "e" -> "E"
      [] c = "x" -> "X"
      [] OTHER -> c

\* l is a quit token in some letter case between two runs of whitespace
QuitLine(l) ==
    \E tok \in QuitTokens : \E a \in 0..Len(l) :
        /\ a + Len(tok) <= Len(l)
        /\ \A k \in 1..Len(l) :
              IF k > a /\ k <= a + Len(tok)
              THEN l[k] \in {tok[k - a], UpperChar(tok[k - a])}
              ELSE l[k] \in Whitespace

BlankLine(l) == \A k \in 1..Len(l) : l[k] \in Whitespace

\* The latest prompt received a line that is a query
QueryLineCompleted ==
    /\ event = "line"
    /\ pc \in {"awaiting", "done"}
    /\ ~BlankLine(raw)
    /\ ~QuitLine(raw)

\* query_firebase_model returned to main
DiagnosticsReturned == pc \in {"awaiting", "executing"} \/ prompts > 0

\* The fault of the latest custom query was raised, not cut off by the break
FaultRaised(kind) ==
    /\ result.fault.kind = kind
    /\ result.fault.at <= 10

ExpectedOutput(n) ==
    IF n = 0 THEN <<>>
    ELSE <<<<"header">>>> \o [k \in 1..(IF n < 10 THEN n ELSE 10) |-> <<"row", k>>]

----------------------------------------------------------------------------
(* C1, as stated: once the diagnostics have returned, each of the three   *)
(* fixed queries has been dispatched, whatever failed.                    *)
C1_EveryQueryAttempted ==
    DiagnosticsReturned => \A q \in 1..3 : diagDispatch[q] = 1

(* C1, amended: the first query is always dispatched; the second and the  *)
(* third are dispatched exactly when the first did not fail, so a failure *)
(* of the second does not prevent the third; every failure is caught.     *)
C1_FirstFailureEndsDiagnostics ==
    DiagnosticsReturned =>
        /\ diagDispatch[1] = 1
        /\ diagErr[1] => diagDispatch[2] = 0 /\ diagDispatch[3] = 0
        /\ ~diagErr[1] => diagDispatch[2] = 1 /\ diagDispatch[3] = 1
        /\ \A q \in 1..3 : diagErr[q] => diagDispatch[q] = 1

C1_Witness ==
    /\ pc = "awaiting"
    /\ diagErr[1]
    /\ diagDispatch = [q \in 1..3 |-> IF q = 1 THEN 1 ELSE 0]

(* C2, as stated: a failure of the table listing does not terminate the   *)
(* process.                                                               *)
C2_ListFailureNotFatal == listErr => pc # "done"

(* C2, amended: a failed table listing is fatal as well: it is reported,  *)
(* the process ends with exit code 1, and neither a diagnostic query nor  *)
(* a prompt follows.                                                      *)
C2_ListFailureFatal ==
    listErr =>
        /\ pc = "done"
        /\ exitCode = "1"
        /\ \A q \in 1..3 : diagDispatch[q] = 0
        /\ prompts = 0
        /\ out = NoOutput

C2_Witness ==
    /\ listErr
    /\ listing.fault.op = "get"
    /\ getTableCalls = 1
    /\ pc = "done"

(* C3: the exit code is 1 exactly when the connection or the table        *)
(* listing failed, and then no diagnostic query was dispatched and no     *)
(* prompt shown; it is 0 when the loop ended on a quit command, on        *)
(* end-of-input or on an interrupt.                                       *)
C3_ExitCodes ==
    /\ exitCode = "1" <=> (connErr \/ listErr)
    /\ (connErr \/ listErr) =>
          /\ pc = "done"
          /\ \A q \in 1..3 : diagDispatch[q] = 0
          /\ prompts = 0
    /\ (pc = "done" /\ event \in {"line", "eof", "interrupt"}) =>
          exitCode = "0"

C3_Witness ==
    /\ pc = "done"
    /\ exitCode = "0"
    /\ event = "line"
    /\ diagErr[2] /\ diagErr[3]
    /\ failStreak >= 1

(* C4: a prompt that receives a quit token, in any letter case and with   *)
(* any surrounding whitespace, or end-of-input, ends the loop with exit   *)
(* code 0 without dispatching a query; after the loop has ended there is  *)
(* no further prompt and no further query.                                *)
C4_QuitTerminates ==
    [][ /\ ( /\ prompts' = prompts + 1
             /\ event' = "eof" \/ (event' = "line" /\ QuitLine(raw')) )
           => /\ pc' = "done"
              /\ exitCode' = "0"
              /\ lineDispatch' = 0
              /\ out' = NoOutput
        /\ pc = "done" => prompts' = prompts /\ out' = out ]_vars

C4_Witness ==
    /\ pc = "done"
    /\ event = "line"
    /\ raw = <<" ","Q","u","i","T","\t">>
    /\ exitCode = "0"
    /\ failStreak = 1

(* C5: a prompt that receives an empty or all-whitespace line dispatches  *)
(* no query, does not end the loop and leaves it awaiting input.          *)
C5_BlankLineIsNoOp ==
    [][ ( /\ prompts' = prompts + 1
          /\ event' = "line"
          /\ BlankLine(raw') )
        => /\ pc' = "awaiting"
           /\ exitCode' = "none"
           /\ lineDispatch' = 0
           /\ out' = NoOutput ]_vars

C5_Witness ==
    /\ pc = "awaiting"
    /\ event = "line"
    /\ raw = <<" ", " ">>
    /\ prompts = 2

(* C6: a custom query that succeeds on a result of N rows prints nothing  *)
(* when N = 0 and otherwise one header followed by the first min(N, 10)   *)
(* rows in order, and consumes min(N, 10) rows.                           *)
C6_HeaderAndTenRows ==
    (out.dispatches >= 1 /\ ~out.err /\ out.raised = "none") =>
        /\ out.printed = ExpectedOutput(result.n)
        /\ out.consumed = IF result.n < 10 THEN result.n ELSE 10

C6_Witness ==
    /\ out.dispatches = 1
    /\ ~out.err
    /\ out.raised = "none"
    /\ result.n = 11
    /\ Len(out.printed) = 11

(* C7: a custom query that fails, at dispatch or while its rows are       *)
(* fetched, prints an error marker last and leaves the loop awaiting      *)
(* input with the process running.                                        *)
C7_QueryFailureRecovers ==
    [][ (pc = "executing" /\ FaultRaised("error")')
        => /\ pc' = "awaiting"
           /\ exitCode' = "none"
           /\ out'.err
           /\ out'.raised = "none"
           /\ out'.printed[Len(out'.printed)] = <<"error">>
           /\ failStreak' = failStreak + 1 ]_vars

C7_Witness ==
    /\ pc = "awaiting"
    /\ failStreak = 2
    /\ result.fault.at = 3
    /\ Len(out.printed) = 4

(* C8: an interrupt that arrives at the prompt or while a custom query is *)
(* in flight ends the loop at once with exit code 0 and is not reported   *)
(* as a query error.                                                      *)
C8_InterruptExitsGracefully ==
    [][ /\ (pc = "awaiting" /\ prompts' = prompts + 1 /\ event' = "interrupt")
           => /\ pc' = "done"
              /\ exitCode' = "0"
              /\ exiting'
              /\ lineDispatch' = 0
              /\ out' = NoOutput
        /\ (pc = "executing" /\ FaultRaised("interrupt")')
           => /\ pc' = "done"
              /\ exitCode' = "0"
              /\ event' = "interrupt"
              /\ exiting'
              /\ prompts' = prompts
              /\ ~out'.err
              /\ \A k \in 1..Len(out'.printed) : out'.printed[k] # <<"error">>
        /\ pc = "done" => prompts' = prompts /\ lineDispatch' = lineDispatch
                          /\ exitCode' = exitCode ]_vars

C8_Witness ==
    /\ pc = "done"
    /\ exitCode = "0"
    /\ event = "interrupt"
    /\ out.dispatches = 1
    /\ result.fault.kind = "interrupt"
    /\ Len(out.printed) = 3

(* C9: when the enumeration of the dataset succeeds with zero tables,     *)
(* list_tables prints no error marker and looks up no table, and the      *)
(* process goes on to the diagnostics instead of exiting with code 1.     *)
C9_EmptyDatasetIsSuccess ==
    (listCalls = 1 /\ listing.n = 0 /\ listing.fault = NoFault) =>
        /\ ~listErr
        /\ getTableCalls = 0
        /\ exitCode # "1"
        /\ pc = "diagnostics" \/ diagDispatch[1] = 1

C9_Witness ==
    /\ listCalls = 1
    /\ listing.n = 0
    /\ listing.fault = NoFault
    /\ pc = "awaiting"
    /\ diagDispatch[1] = 1

(* C10: the table listing is requested at most once, each fixed query is  *)
(* dispatched at most once, and a line that is a query has caused exactly *)
(* one dispatch once run_custom_query is over, failed or not.             *)
C10_NoRetries ==
    /\ listCalls <= 1
    /\ \A q \in 1..3 : diagDispatch[q] <= 1
    /\ QueryLineCompleted => lineDispatch = 1 /\ out.dispatches = 1
    /\ (event = "line" /\ (BlankLine(raw) \/ QuitLine(raw))) => lineDispatch = 0

C10_Witness ==
    /\ pc = "awaiting"
    /\ event = "line"
    /\ out.err
    /\ lineDispatch = 1
    /\ listCalls = 1
    /\ diagErr[2]
    /\ diagDispatch[2] = 1

====
